---- MODULE Spec2Model ----
(***************************************************************************)
(* Model of the offline speech-to-text tool server                         *)
(* (src/src/mcp_speech_to_text/server.py, OfflineSpeechToTextServer).      *)
(*                                                                         *)
(* State: the server object's fields vosk_model / vosk_rec, the models     *)
(* directory, the audio files on disk, the input device, and one record    *)
(* per tool invocation in flight.  Each handler is cut into steps at its   *)
(* blocking calls (file reads, decoder calls, download, extraction,        *)
(* device reads); steps of different invocations interleave, which is the  *)
(* scheduling model of spec section 5 (cooperative or thread-based).       *)
(***************************************************************************)
EXTENDS Integers, Sequences, FiniteSets, TLC

\* ---------------------------------------------------------------- bounds
MaxCalls == 2          \* invocations in flight at the same time
MaxInvocations == 2    \* invocations started in one behaviour
MaxDurQ == 1           \* longest recording asked for, in quarter seconds
MaxFrames == 4         \* longest stream decoded whole and in pieces, in frames

\* ------------------------------------------------------- program constants
DefaultRate == 16000   \* KaldiRecognizer(self.vosk_model, 16000)
ChunkFrames == 4000    \* wf.readframes(4000) / stream.read(4000)

None == "None"         \* Python None / an argument that is absent
NoObj == 0             \* a field holding None instead of an object

Slots == 1..MaxCalls

\* tool names dispatched by handle_call_tool, plus one that is not registered
RegisteredTools ==
    {"get_supported_formats", "transcribe_audio_offline", "convert_audio_format",
     "record_and_transcribe_offline", "download_vosk_model"}
ToolNames == RegisteredTools \cup {"unknown_tool_name"}

\* model_urls of _download_vosk_model: catalogue name -> directory the archive
\* unpacks to (the basename of the URL without ".zip")
model_urls ==
    [x \in {"small-en-us", "en-us", "small-zh", "small-fr", "small-de", "small-es"} |->
        CASE x = "small-en-us" -> "vosk-model-small-en-us-0.15"
          [] x = "en-us"       -> "vosk-model-en-us-0.22"
          [] x = "small-zh"    -> "vosk-model-small-cn-0.22"
          [] x = "small-fr"    -> "vosk-model-small-fr-0.22"
          [] x = "small-de"    -> "vosk-model-small-de-0.15"
          [] x = "small-es"    -> "vosk-model-small-es-0.42"]

ModelDirNames == {model_urls[x] : x \in DOMAIN model_urls}

\* model names a caller passes to download_vosk_model (None = argument absent)
ModelNameInputs == {None, "small-fr", "bogus"}

\* paths the calls name
Paths == {"/nonexistent/x.wav", "/nonexistent/x_converted.wav", "speech.wav",
          "song.mp3", "song.mp3_converted.wav", "song_converted.wav", "out.wav",
          "empty.wav", "cd.wav"}

\* file_path.lower().endswith('.wav')
EndsWithWav(p) == p \in Paths \ {"song.mp3"}

\* wav_path = file_path + "_converted.wav"  (_transcribe_audio_offline; taken
\* only for a path that does not end in .wav)
AppendConverted(p) == CASE p = "song.mp3" -> "song.mp3_converted.wav"

\* name, ext = os.path.splitext(input_path); f"{name}_converted.wav"
\* (_convert_audio_format, for the input paths callers pass)
SplitextConverted(p) ==
    CASE p = "song.mp3"           -> "song_converted.wav"
      [] p = "/nonexistent/x.wav" -> "/nonexistent/x_converted.wav"

\* A file is absent or holds audio: a container format, a frame rate and the
\* audio as the sequence of 4000-frame chunks a reader gets from it.  A chunk is "sp"
\* (speech, no utterance boundary yet) or "end" (the decoder reaches an
\* utterance boundary in it).
Chunks == {"sp", "end"}
Absent == [fmt |-> "absent", rate |-> 0, audio |-> <<>>]
InitialFiles ==
    [p \in Paths |->
        CASE p = "speech.wav" -> [fmt |-> "wav", rate |-> 16000,
                                  audio |-> <<"sp", "end", "end", "sp">>]
          [] p = "song.mp3"   -> [fmt |-> "mp3", rate |-> 44100, audio |-> <<"sp">>]
          [] p = "empty.wav"  -> [fmt |-> "wav", rate |-> 16000, audio |-> <<>>]
          [] p = "cd.wav"     -> [fmt |-> "wav", rate |-> 44100, audio |-> <<"sp">>]
          [] OTHER            -> Absent]

VARIABLES
    vosk_model,   \* self.vosk_model: index into modelObjs, or NoObj
    vosk_rec,     \* self.vosk_rec: index into recObjs, or NoObj
    modelObjs,    \* the vosk.Model objects ever built: the directory each was loaded from
    recObjs,      \* the KaldiRecognizer objects ever built
    installed,    \* the optional libraries that import on this host
    modelDirs,    \* the models directory: directory name -> "absent" | "good" | "bad"
    zips,         \* the archives in the models directory: name -> "absent" | "ok" | "corrupt"
    files,        \* the audio files: path -> content
    micOpen,      \* input streams opened on the device and not closed
    calls,        \* the invocation in each slot
    invoked,      \* invocations started so far
    boot,         \* process startup: the host, the probe's position and its snapshot
    split         \* one audio stream decoded whole and decoded in pieces

vars == <<vosk_model, vosk_rec, modelObjs, recObjs, installed, modelDirs, zips,
          files, micOpen, calls, invoked, boot, split>>

\* ------------------------------------------------------- process startup
\* (src/src/mcp_speech_to_text/__main__.py)
\* The host as the probe finds it: platform.system(), platform.machine(), what
\* "import vosk" and "import speech_recognition" do ("ok", "ImportError", or
\* another exception such as an OSError from a native library), and the
\* models directory next to the package.
Systems == {"linux", "darwin", "windows"}
Machines == {"x86_64", "arm64"}
ImportOutcomes == {"ok", "ImportError", "OSError"}
ModelsDirStates == {"missing", "empty", "model", "unreadable"}

\* capabilities = {...}, lines 25-32
InitialCapabilities(system, machine) ==
    [platform |-> <<system, machine>>, vosk_supported |-> FALSE,
     speechrecognition_supported |-> FALSE, offline_capable |-> FALSE,
     recommended_backend |-> None, production_ready |-> FALSE]

\* startup is not running (the server was built by its constructor alone)
NoBoot ==
    [pc |-> "off", system |-> "linux", machine |-> "x86_64", voskImport |-> "ok",
     srImport |-> "ok", modelsDir |-> "missing",
     caps |-> InitialCapabilities("linux", "x86_64"),
     constructed |-> <<>>, ctorFailed |-> FALSE, running |-> None, exit |-> None]

recommended_backend_linux_only(system, machine, vosk_supported, sr_supported) ==
    IF system = "linux" /\ machine = "x86_64" /\ vosk_supported THEN "vosk"
    ELSE IF sr_supported THEN "speechrecognition"
    ELSE IF vosk_supported THEN "vosk"
    ELSE None

recommended_backend_sr_on_linux(system, machine, vosk_supported, sr_supported) ==
    IF system = "linux" /\ machine = "x86_64" /\ vosk_supported THEN "vosk"
    ELSE IF vosk_supported THEN "vosk"
    ELSE IF sr_supported /\ system = "linux" THEN "speechrecognition"
    ELSE None

server_class_swapped(backend) ==
    IF backend = "vosk" THEN "SpeechToTextServer" ELSE "OfflineSpeechToTextServer"

\* the class main() constructs for a recommended backend, lines 107-120
server_class(backend) ==
    IF backend = "vosk" THEN "OfflineSpeechToTextServer" ELSE "SpeechToTextServer"

\* how importing the server module and running its constructor can end
ConstructOutcomes == {"ok", "ImportError", "Exception"}

\* capabilities["recommended_backend"] as lines 67-84 of
\* detect_platform_capabilities set it
recommended_backend(system, machine, vosk_supported, sr_supported) ==
    IF system = "linux" /\ machine = "x86_64" /\ vosk_supported THEN "vosk"
    ELSE IF vosk_supported THEN "vosk"
    ELSE IF sr_supported THEN "speechrecognition"
    ELSE None

\* capabilities["production_ready"], lines 70, 74, 78
production_ready(system, machine, vosk_supported, sr_supported) ==
    IF system = "linux" /\ machine = "x86_64" /\ vosk_supported THEN TRUE
    ELSE IF vosk_supported THEN TRUE
    ELSE IF sr_supported THEN system = "linux"
    ELSE FALSE

\* ------------------------------------------------------------ the decoder
\* vosk.KaldiRecognizer(model, rate): a fresh recognizer bound to one model.
\* "by" is the invocation that built it (0: the constructor).
KaldiRecognizer(m, rate, by) ==
    [model |-> m, rate |-> rate, fed |-> <<>>, pending |-> FALSE,
     finalized |-> FALSE, by |-> by]

\* The text a model recognizes for one utterance: it depends on the model.
Word(m) == modelObjs[m]

\* the utterance a recognizer is in: one more than the boundaries it has passed
UtteranceNo(r) == Len(SelectSeq(r.fed, LAMBDA ch : ch = "end")) + 1
Ordinal(n) == CASE n = 1 -> "#1" [] n = 2 -> "#2" [] n = 3 -> "#3" [] OTHER -> "#n"

\* the text of the utterance a recognizer has pending: it depends on the
\* model and on where in the stream the utterance lies
PendingText(r) == Word(r.model) \o Ordinal(UtteranceNo(r))

readframes_stuck(audio, pos) == audio[1]

\* data = wf.readframes(4000) on a file of which pos chunks have been read
readframes(audio, pos) == audio[pos + 1]

\* rec.AcceptWaveform(data): TRUE when the chunk brings an utterance boundary
AcceptWaveform(chunk) == chunk = "end"

\* the recognizer after AcceptWaveform(data)
AfterAccept(r, chunk) ==
    [r EXCEPT !.fed = Append(@, chunk),
              !.pending = IF chunk = "end" THEN FALSE ELSE TRUE]

\* json.loads(rec.Result())['text'] after AcceptWaveform(chunk) returned TRUE,
\* taken on the recognizer as it was before the chunk: "" when nothing was said
ResultText(r) == IF r.pending THEN PendingText(r) ELSE ""

\* json.loads(rec.FinalResult())['text'] and the recognizer afterwards
FinalResultText(r) == IF r.pending THEN PendingText(r) ELSE ""
AfterFinal(r) == [r EXCEPT !.pending = FALSE, !.finalized = TRUE]

AppendIfText_front(results, text) == IF text # "" THEN <<text>> \o results ELSE results

\* if result.get('text'): results.append(result['text'])
AppendIfText(results, text) == IF text # "" THEN Append(results, text) ELSE results

\* A text is kept as the sequence of the pieces it is concatenated from; the
\* empty pieces do not show in it.
Pieces(ts) == SelectSeq(ts, LAMBDA t : t # "")

\* " ".join(results)
RECURSIVE JoinSpace(_)
JoinSpace(rs) ==
    IF rs = <<>> THEN <<>>
    ELSE IF Len(rs) = 1 THEN Pieces(<<rs[1]>>)
    ELSE Pieces(<<rs[1], " ">>) \o JoinSpace(Tail(rs))

\* str.strip(): whitespace at both ends goes
RECURSIVE LStrip(_)
LStrip(ts) == IF ts # <<>> /\ Head(ts) = " " THEN LStrip(Tail(ts)) ELSE ts
RECURSIVE RStrip(_)
RStrip(ts) ==
    IF ts # <<>> /\ ts[Len(ts)] = " " THEN RStrip(SubSeq(ts, 1, Len(ts) - 1)) ELSE ts
Strip(ts) == RStrip(LStrip(ts))

full_transcription_unspaced(results) == Pieces(results)

\* full_transcription = " ".join(results).strip()
full_transcription(results) == Strip(JoinSpace(results))

\* the string a sequence of pieces stands for
RECURSIVE ConcatText(_)
ConcatText(ts) == IF ts = <<>> THEN "" ELSE Head(ts) \o ConcatText(Tail(ts))

\* A buffer of several frames handed to one AcceptWaveform call, for a
\* decoder whose utterances depend on the stream only: the recognizer
\* afterwards, whether an utterance boundary lies in the buffer, and the text
\* Result() then gives, the utterances the buffer closed.
RECURSIVE AfterAcceptAll(_, _)
AfterAcceptAll(r, buffer) ==
    IF buffer = <<>> THEN r
    ELSE AfterAcceptAll(AfterAccept(r, Head(buffer)), Tail(buffer))

AcceptWaveformAll(buffer) == \E i \in 1..Len(buffer) : AcceptWaveform(buffer[i])

RECURSIVE ClosedTexts(_, _)
ClosedTexts(r, buffer) ==
    IF buffer = <<>> THEN <<>>
    ELSE (IF AcceptWaveform(Head(buffer)) THEN <<ResultText(r)>> ELSE <<>>)
         \o ClosedTexts(AfterAccept(r, Head(buffer)), Tail(buffer))

ResultTextAll(r, buffer) == ConcatText(JoinSpace(Pieces(ClosedTexts(r, buffer))))

\* no stream is being decoded twice
NoSplit ==
    [pc |-> "off", frames |-> <<>>, size |-> 1, pos |-> 0,
     rec |-> KaldiRecognizer(1, DefaultRate, 0), results |-> <<>>,
     whole |-> <<>>, parts |-> <<>>]

supported_input_formats_no_wav ==
    <<".mp3", ".flac", ".m4a", ".ogg", ".webm", ".amr">>

\* formats["supported_input_formats"] of _get_supported_formats
supported_input_formats ==
    <<".wav", ".mp3", ".flac", ".m4a", ".ogg", ".webm", ".amr">>

\* ------------------------------------------------------- the tool results
\* What handle_call_tool hands to its caller: a returned list[TextContent]
\* whose JSON payload has the "error" key e ("" when it has none), or a
\* raised exception.  cause is the exception the handler itself raised.
\* getattr(result, 'isError', False): a list[TextContent] carries no flag.
ToolResultIsError(error) == FALSE

Returned(error) ==
    [outcome |-> "returned", error |-> error, cause |-> "", content |-> 1,
     isError |-> ToolResultIsError(error)]

\* except Exception as e: raise Exception(f"Internal error: {str(e)}")
GatewayExcept(cause, msg) ==
    [outcome |-> "raised", error |-> msg, cause |-> cause, content |-> 0,
     isError |-> FALSE]

NoResult ==
    [outcome |-> "none", error |-> "", cause |-> "", content |-> 0, isError |-> FALSE]

\* ------------------------------------------------------------ invocations
NoArgs == [file_path |-> None, input_path |-> None, output_path |-> None,
           durQ |-> 0, model_name |-> None]

Idle ==
    [pc |-> "idle", id |-> 0, name |-> None, args |-> NoArgs,
     wav_path |-> None, out_path |-> None, results |-> <<>>, pos |-> 0,
     rec |-> NoObj, model |-> NoObj, entryModel |-> NoObj, entryRec |-> NoObj,
     nConv |-> 0, nRecs |-> 0, nFed |-> 0, nMic |-> 0, handler |-> None,
     entryExists |-> FALSE, formats |-> <<>>, heard |-> <<>>, nFinal |-> 0,
     madeWav |-> FALSE, undecodable |-> FALSE, transcription |-> <<>>,
     source |-> <<>>, fedChunks |-> <<>>, available_models |-> {},
     audio |-> <<>>, loaded |-> FALSE, result |-> NoResult]

\* the argument mappings callers pass to each tool
ArgsOf(name) ==
    CASE name = "transcribe_audio_offline" ->
            {[NoArgs EXCEPT !.file_path = p] :
                p \in {None, "/nonexistent/x.wav", "speech.wav", "song.mp3", "out.wav",
                       "empty.wav", "cd.wav"}}
      [] name = "convert_audio_format" ->
            {[NoArgs EXCEPT !.input_path = p, !.output_path = o] :
                p \in {None, "/nonexistent/x.wav", "song.mp3"}, o \in {None, "out.wav"}}
            \cup {[NoArgs EXCEPT !.input_path = "song.mp3", !.output_path = "song.mp3"]}
      [] name = "record_and_transcribe_offline" ->
            {[NoArgs EXCEPT !.durQ = d] : d \in 0..MaxDurQ}
      [] name = "download_vosk_model" ->
            {[NoArgs EXCEPT !.model_name = m] : m \in ModelNameInputs}
      [] OTHER -> {NoArgs}

\* --------------------------------------------------------- initialization
\* for item in os.listdir(models_dir): if item.startswith("vosk-model"): ...
\* the directory entries that can be the first match of the listing, whose
\* order the file system decides.  Archives ("<name>.zip") never match.
StartsWithVoskModel(item) == item \in ModelDirNames
Candidates(md) == {d \in ModelDirNames : md[d] # "absent" /\ StartsWithVoskModel(d)}

\* The directory self._initialize_vosk() loads, or None when it returns
\* without loading (import vosk fails, no model directory).
InitPicks(inst, md) ==
    IF "vosk" \notin inst \/ Candidates(md) = {} THEN {None} ELSE Candidates(md)

Libraries == {"vosk", "pydub", "pyaudio"}

\* __init__: fields set to None, then _initialize_vosk() on the models
\* directory found at startup.
Init ==
    /\ installed \in {Libraries, Libraries \ {"vosk"}, {"vosk"}}
    /\ \E st \in {"absent", "good", "bad"} :
          modelDirs = [d \in ModelDirNames |->
                          IF d = "vosk-model-small-en-us-0.15" THEN st ELSE "absent"]
    /\ zips = [x \in DOMAIN model_urls |-> "absent"]
    /\ files = InitialFiles
    /\ micOpen = 0
    /\ calls = [c \in Slots |-> Idle]
    /\ invoked = 0
    /\ boot = NoBoot
    /\ split = NoSplit
    /\ \E d \in InitPicks(installed, modelDirs), recOk \in BOOLEAN :
          IF d = None \/ modelDirs[d] = "bad"
          THEN /\ modelObjs = <<>> /\ recObjs = <<>>
               /\ vosk_model = NoObj /\ vosk_rec = NoObj
          ELSE /\ modelObjs = <<d>>
               /\ vosk_model = 1
               /\ IF recOk
                  THEN recObjs = <<KaldiRecognizer(1, DefaultRate, 0)>> /\ vosk_rec = 1
                  ELSE recObjs = <<>> /\ vosk_rec = NoObj

\* ----------------------------------------------------------------- helpers
Exists(p) == files[p].fmt # "absent"                    \* os.path.exists(p)

\* the handler returns or raises: its local variables are gone, the result
\* waits for the caller
Finish(cr, res) ==
    [cr EXCEPT !.pc = "done", !.result = res, !.audio = <<>>, !.pos = 0,
               !.wav_path = None, !.out_path = None]

\* model_name = arguments.get("model_name", "small-en-us")
ModelNameArg(args) == IF args.model_name = None THEN "small-en-us" ELSE args.model_name

\* frames_to_record = int(sample_rate / 4000 * duration), duration in quarter seconds
FramesToRecord(sample_rate, durQ) == (sample_rate * durQ) \div (ChunkFrames * 4)

\* if not self.vosk_model or not self.vosk_rec   (both decoding tools)
ModelNotLoaded == vosk_model = NoObj \/ vosk_rec = NoObj

\* The body of _convert_audio_format after its arguments are read: the files
\* afterwards and the "error" key of the payload.  ok = AudioSegment.from_file
\* can decode the input.
ConvertFiles(input, output, ok) ==
    IF "pydub" \in installed /\ input # None /\ Exists(input) /\ ok
    THEN [files EXCEPT ![output] = [fmt |-> "wav", rate |-> DefaultRate, audio |-> files[input].audio]]
    ELSE files
ConvertError(input, output, ok) ==
    IF "pydub" \notin installed THEN "Missing dependency"
    ELSE IF input # None /\ Exists(input) /\ ok THEN ""
    ELSE "Conversion failed"

\* The payload of a finished decode (lines 297-310 and 441-450): it has no
\* "error" key, whatever the transcription is.
transcription_result_no_speech(text) ==
    IF text = <<>> THEN Returned("No speech detected") ELSE Returned("")

transcription_result(text) == Returned("")

\* ------------------------------------------------------------ the gateway
\* handle_call_tool(name, arguments) up to the first blocking call of the
\* handler it dispatches to.
transcribe_entry_caught(cr) ==
    IF ModelNotLoaded THEN Finish(cr, Returned("Vosk model not loaded"))
    ELSE IF cr.args.file_path = None \/ ~Exists(cr.args.file_path)
         THEN Finish(cr, Returned("Transcription failed"))
    ELSE IF EndsWithWav(cr.args.file_path)
         THEN [cr EXCEPT !.pc = "tr_open", !.wav_path = cr.args.file_path]
    ELSE [cr EXCEPT !.pc = "tr_convert", !.wav_path = AppendConverted(cr.args.file_path)]

transcribe_entry(cr) ==
    IF ModelNotLoaded THEN Finish(cr, Returned("Vosk model not loaded"))
    ELSE IF cr.args.file_path = None
         THEN Finish(cr, GatewayExcept("TypeError", "Internal error"))
    ELSE IF ~Exists(cr.args.file_path)
         THEN Finish(cr, GatewayExcept("FileNotFoundError", "Internal error"))
    ELSE IF "vosk" \notin installed THEN Finish(cr, Returned("Missing dependency"))
    ELSE IF EndsWithWav(cr.args.file_path)
         THEN [cr EXCEPT !.pc = "tr_open", !.wav_path = cr.args.file_path]
    ELSE [cr EXCEPT !.pc = "tr_convert", !.wav_path = AppendConverted(cr.args.file_path)]

convert_entry(cr) ==
    IF cr.args.output_path # None
    THEN [cr EXCEPT !.pc = "cv_run", !.out_path = cr.args.output_path]
    ELSE IF cr.args.input_path = None
         THEN Finish(cr, GatewayExcept("TypeError", "Internal error"))
    ELSE [cr EXCEPT !.pc = "cv_run", !.out_path = SplitextConverted(cr.args.input_path)]

record_entry_unchecked(cr) == [cr EXCEPT !.pc = "rec_open"]

record_entry(cr) ==
    IF ModelNotLoaded THEN Finish(cr, Returned("Vosk model not loaded"))
    ELSE [cr EXCEPT !.pc = "rec_open"]

model_after_failed_load_reset(m) == NoObj

\* _initialize_vosk lines 73-76: the handler of a failed load logs and
\* assigns nothing; self.vosk_model keeps the value m it had
model_after_failed_load(m) == m

download_entry_reload(cr) ==
    IF ModelNameArg(cr.args) \notin DOMAIN model_urls
    THEN [cr EXCEPT !.pc = "dl_init_model"]
    ELSE [cr EXCEPT !.pc = "dl_retrieve"]

download_entry(cr) ==
    IF ModelNameArg(cr.args) \notin DOMAIN model_urls
    THEN Finish([cr EXCEPT !.available_models = DOMAIN model_urls],
                Returned("Model not available"))
    ELSE [cr EXCEPT !.pc = "dl_retrieve"]

Dispatch(cr) ==
    CASE cr.name = "get_supported_formats"         ->
            Finish([cr EXCEPT !.formats = supported_input_formats], Returned(""))
      [] cr.name = "transcribe_audio_offline"      -> transcribe_entry(cr)
      [] cr.name = "convert_audio_format"          -> convert_entry(cr)
      [] cr.name = "record_and_transcribe_offline" -> record_entry(cr)
      [] cr.name = "download_vosk_model"           -> download_entry(cr)
      [] OTHER -> Finish(cr, GatewayExcept("ValueError", "Internal error"))

\* the handler method the dispatch runs (None: no handler)
HandlerOf(name) == IF name \in RegisteredTools THEN name ELSE None

handle_call_tool(c, name, args) ==
    /\ calls[c].pc = "idle"
    /\ \A b \in Slots : b < c => calls[b].pc # "idle"
    /\ invoked < MaxInvocations
    /\ invoked' = invoked + 1
    /\ calls' = [calls EXCEPT ![c] =
          Dispatch([Idle EXCEPT !.id = invoked + 1, !.name = name, !.args = args,
                                !.handler = HandlerOf(name),
                                !.entryModel = vosk_model, !.entryRec = vosk_rec,
                                !.entryExists = args.file_path # None
                                                /\ Exists(args.file_path)])]
    /\ UNCHANGED <<boot, split>>
    /\ UNCHANGED <<vosk_model, vosk_rec, modelObjs, recObjs, installed, modelDirs,
                   zips, files, micOpen>>

\* the caller takes the result; the slot is free again
Return(c) ==
    /\ calls[c].pc = "done"
    /\ calls' = [calls EXCEPT ![c] = Idle]
    /\ UNCHANGED <<boot, split>>
    /\ UNCHANGED <<vosk_model, vosk_rec, modelObjs, recObjs, installed, modelDirs,
                   zips, files, micOpen, invoked>>

\* ------------------------------------------------ _convert_audio_format
ConvertRun(c) ==
    /\ calls[c].pc = "cv_run"
    /\ \E ok \in BOOLEAN :
          LET cr == calls[c] IN
          /\ files' = ConvertFiles(cr.args.input_path, cr.out_path, ok)
          /\ calls' = [calls EXCEPT ![c] =
                Finish([cr EXCEPT !.nConv = @ + 1],
                       Returned(ConvertError(cr.args.input_path, cr.out_path, ok)))]
    /\ UNCHANGED <<boot, split>>
    /\ UNCHANGED <<vosk_model, vosk_rec, modelObjs, recObjs, installed, modelDirs,
                   zips, micOpen, invoked>>

\* --------------------------------------------- _transcribe_audio_offline
\* lines 244-261: convert a non-WAV input to file_path + "_converted.wav"
TranscribeConvert(c) ==
    /\ calls[c].pc = "tr_convert"
    /\ \E ok \in BOOLEAN :
          LET cr == calls[c]
              after == ConvertFiles(cr.args.file_path, cr.wav_path, ok)
              cn == [cr EXCEPT !.nConv = @ + 1,
                               !.madeWav = (ConvertError(cr.args.file_path, cr.wav_path, ok) = ""),
                               !.undecodable = ("pydub" \in installed /\ ~ok)]
          IN
          /\ files' = after
          /\ calls' = [calls EXCEPT ![c] =
                IF after[cr.wav_path].fmt = "absent"
                THEN Finish(cn, Returned("Audio conversion failed"))
                ELSE [cn EXCEPT !.pc = "tr_open"]]
    /\ UNCHANGED <<boot, split>>
    /\ UNCHANGED <<vosk_model, vosk_rec, modelObjs, recObjs, installed, modelDirs,
                   zips, micOpen, invoked>>

\* lines 266-274: open the WAV, replace self.vosk_rec by a fresh recognizer
\* on self.vosk_model.  recOk = the recognizer can be built.
TranscribeOpen(c) ==
    /\ calls[c].pc = "tr_open"
    /\ \E recOk \in BOOLEAN :
          LET cr == calls[c] IN
          IF files[cr.wav_path].fmt # "wav" \/ ~recOk
          THEN /\ calls' = [calls EXCEPT ![c] = Finish(cr, Returned("Transcription failed"))]
               /\ UNCHANGED <<vosk_rec, recObjs>>
          ELSE /\ recObjs' = Append(recObjs,
                                    KaldiRecognizer(vosk_model, files[cr.wav_path].rate, cr.id))
               /\ vosk_rec' = Len(recObjs) + 1
               /\ calls' = [calls EXCEPT ![c] =
                     [cr EXCEPT !.pc = "tr_feed", !.audio = files[cr.wav_path].audio,
                                !.source = files[cr.wav_path].audio,
                                !.rec = Len(recObjs) + 1, !.model = vosk_model,
                                !.nRecs = @ + 1]]
    /\ UNCHANGED <<boot, split>>
    /\ UNCHANGED <<vosk_model, modelObjs, installed, modelDirs, zips, files, micOpen,
                   invoked>>

\* one pass of the loop, lines 275-283: the chunk goes to whatever recognizer
\* self.vosk_rec names now
TranscribeFeed(c) ==
    /\ calls[c].pc = "tr_feed"
    /\ calls[c].pos < Len(calls[c].audio)
    /\ LET cr == calls[c]
           data == readframes(cr.audio, cr.pos)
           r == recObjs[vosk_rec]
       IN
       /\ recObjs' = [recObjs EXCEPT ![vosk_rec] = AfterAccept(r, data)]
       /\ calls' = [calls EXCEPT ![c] =
             [cr EXCEPT !.pos = @ + 1, !.nFed = @ + 1,
                        !.fedChunks = Append(@, data),
                        !.heard = IF AcceptWaveform(data)
                                  THEN Append(@, ResultText(r)) ELSE @,
                        !.results = IF AcceptWaveform(data)
                                    THEN AppendIfText(@, ResultText(r)) ELSE @]]
    /\ UNCHANGED <<boot, split>>
    /\ UNCHANGED <<vosk_model, vosk_rec, modelObjs, installed, modelDirs, zips, files,
                   micOpen, invoked>>

\* lines 277-310: end of data, FinalResult, join, delete the converted file
TranscribeFinal(c) ==
    /\ calls[c].pc = "tr_feed"
    /\ calls[c].pos = Len(calls[c].audio)
    /\ LET cr == calls[c]
           r == recObjs[vosk_rec]
           results == AppendIfText(cr.results, FinalResultText(r))
       IN
       /\ recObjs' = [recObjs EXCEPT ![vosk_rec] = AfterFinal(r)]
       /\ files' = IF cr.wav_path # cr.args.file_path /\ Exists(cr.wav_path)
                   THEN [files EXCEPT ![cr.wav_path] = Absent] ELSE files
       /\ calls' = [calls EXCEPT ![c] =
             Finish([cr EXCEPT !.results = results, !.nFinal = @ + 1,
                               !.heard = Append(@, FinalResultText(r)),
                               !.transcription = full_transcription(results)],
                    transcription_result(full_transcription(results)))]
    /\ UNCHANGED <<boot, split>>
    /\ UNCHANGED <<vosk_model, vosk_rec, modelObjs, installed, modelDirs, zips, micOpen,
                   invoked>>

\* ---------------------------------------- _record_and_transcribe_offline
\* lines 400-420: open the input stream, build the call's own recognizer
RecordOpen(c) ==
    /\ calls[c].pc = "rec_open"
    /\ \E micOk \in BOOLEAN, recOk \in BOOLEAN :
          LET cr == calls[c] IN
          IF "pyaudio" \notin installed
          THEN /\ calls' = [calls EXCEPT ![c] = Finish(cr, Returned("Missing dependency"))]
               /\ UNCHANGED <<micOpen, recObjs>>
          ELSE IF ~micOk
          THEN /\ calls' = [calls EXCEPT ![c] = Finish(cr, Returned("Recording failed"))]
               /\ UNCHANGED <<micOpen, recObjs>>
          ELSE IF ~recOk
          THEN /\ micOpen' = micOpen + 1
               /\ calls' = [calls EXCEPT ![c] =
                     Finish([cr EXCEPT !.nMic = @ + 1], Returned("Recording failed"))]
               /\ UNCHANGED recObjs
          ELSE /\ micOpen' = micOpen + 1
               /\ recObjs' = Append(recObjs, KaldiRecognizer(vosk_model, DefaultRate, cr.id))
               /\ calls' = [calls EXCEPT ![c] =
                     [cr EXCEPT !.pc = "rec_read", !.nMic = @ + 1, !.nRecs = @ + 1,
                                !.rec = Len(recObjs) + 1, !.model = vosk_model]]
    /\ UNCHANGED <<boot, split>>
    /\ UNCHANGED <<vosk_model, vosk_rec, modelObjs, installed, modelDirs, zips, files,
                   invoked>>

\* one pass of the loop, lines 422-427: stream.read(4000) yields a chunk,
\* raises, or does not return because the device delivers no frames; no
\* step of the handler follows a read that does not return ("rec_blocked")
RecordRead(c) ==
    /\ calls[c].pc = "rec_read"
    /\ calls[c].pos < FramesToRecord(DefaultRate, calls[c].args.durQ)
    /\ LET cr == calls[c]
           r == recObjs[cr.rec]
       IN
       \/ /\ calls' = [calls EXCEPT ![c] = Finish(cr, Returned("Recording failed"))]
          /\ UNCHANGED recObjs
       \/ /\ calls' = [calls EXCEPT ![c] = [cr EXCEPT !.pc = "rec_blocked"]]
          /\ UNCHANGED recObjs
       \/ \E data \in Chunks :
             /\ recObjs' = [recObjs EXCEPT ![cr.rec] = AfterAccept(r, data)]
             /\ calls' = [calls EXCEPT ![c] =
                   [cr EXCEPT !.pos = @ + 1, !.nFed = @ + 1,
                              !.source = Append(@, data),
                              !.fedChunks = Append(@, data),
                              !.heard = IF AcceptWaveform(data)
                                        THEN Append(@, ResultText(r)) ELSE @,
                              !.results = IF AcceptWaveform(data)
                                          THEN AppendIfText(@, ResultText(r)) ELSE @]]
    /\ UNCHANGED <<boot, split>>
    /\ UNCHANGED <<vosk_model, vosk_rec, modelObjs, installed, modelDirs, zips, files,
                   micOpen, invoked>>

\* lines 429-450: FinalResult, close the stream, return
RecordFinal(c) ==
    /\ calls[c].pc = "rec_read"
    /\ calls[c].pos = FramesToRecord(DefaultRate, calls[c].args.durQ)
    /\ LET cr == calls[c]
           r == recObjs[cr.rec]
           results == AppendIfText(cr.results, FinalResultText(r))
       IN
       /\ recObjs' = [recObjs EXCEPT ![cr.rec] = AfterFinal(r)]
       /\ micOpen' = micOpen - 1
       /\ calls' = [calls EXCEPT ![c] =
             Finish([cr EXCEPT !.results = results, !.nFinal = @ + 1,
                               !.heard = Append(@, FinalResultText(r)),
                               !.transcription = full_transcription(results)],
                    transcription_result(full_transcription(results)))]
    /\ UNCHANGED <<boot, split>>
    /\ UNCHANGED <<vosk_model, vosk_rec, modelObjs, installed, modelDirs, zips, files,
                   invoked>>

\* ------------------------------------------------- _download_vosk_model
\* line 508: urllib.request.urlretrieve(url, zip_path) fails, or leaves an
\* archive that is a good zip or a corrupt one
DownloadRetrieve(c) ==
    /\ calls[c].pc = "dl_retrieve"
    /\ LET cr == calls[c] IN
       \/ /\ calls' = [calls EXCEPT ![c] = Finish(cr, Returned("Download failed"))]
          /\ UNCHANGED zips
       \/ \E kind \in {"ok", "corrupt"} :
             /\ zips' = [zips EXCEPT ![ModelNameArg(cr.args)] = kind]
             /\ calls' = [calls EXCEPT ![c] = [cr EXCEPT !.pc = "dl_extract"]]
    /\ UNCHANGED <<boot, split>>
    /\ UNCHANGED <<vosk_model, vosk_rec, modelObjs, recObjs, installed, modelDirs,
                   files, micOpen, invoked>>

\* lines 511-515: extract the archive into the models directory, remove it.
\* The directory it unpacks to holds a loadable model ("good") or lacks
\* files the decoder needs ("bad").
DownloadExtract(c) ==
    /\ calls[c].pc = "dl_extract"
    /\ LET cr == calls[c]
           name == ModelNameArg(cr.args)
       IN
       IF zips[name] # "ok"
       THEN /\ calls' = [calls EXCEPT ![c] = Finish(cr, Returned("Download failed"))]
            /\ UNCHANGED <<zips, modelDirs>>
       ELSE \E content \in {"good", "bad"} :
               /\ modelDirs' = [modelDirs EXCEPT ![model_urls[name]] = content]
               /\ zips' = [zips EXCEPT ![name] = "absent"]
               /\ calls' = [calls EXCEPT ![c] = [cr EXCEPT !.pc = "dl_init_model"]]
    /\ UNCHANGED <<boot, split>>
    /\ UNCHANGED <<vosk_model, vosk_rec, modelObjs, recObjs, installed, files,
                   micOpen, invoked>>

\* line 518 -> _initialize_vosk lines 47-68: pick a model directory, load it
\* and assign self.vosk_model; on no directory or a failed load, return to
\* _download_vosk_model, which reports success (lines 520-530)
initialize_vosk_model(c) ==
    /\ calls[c].pc = "dl_init_model"
    /\ \E d \in InitPicks(installed, modelDirs) :
          LET cr == calls[c] IN
          IF d = None \/ modelDirs[d] = "bad"
          THEN /\ calls' = [calls EXCEPT ![c] = Finish(cr, Returned(""))]
               /\ vosk_model' = model_after_failed_load(vosk_model)
               /\ UNCHANGED modelObjs
          ELSE /\ modelObjs' = Append(modelObjs, d)
               /\ vosk_model' = Len(modelObjs) + 1
               /\ calls' = [calls EXCEPT ![c] =
                     [cr EXCEPT !.pc = "dl_init_rec", !.model = Len(modelObjs) + 1]]
    /\ UNCHANGED <<boot, split>>
    /\ UNCHANGED <<vosk_rec, recObjs, installed, modelDirs, zips, files, micOpen,
                   invoked>>

\* _initialize_vosk line 69: self.vosk_rec = KaldiRecognizer(self.vosk_model, 16000),
\* or the exception handler of lines 75-76; then lines 520-530
initialize_vosk_rec(c) ==
    /\ calls[c].pc = "dl_init_rec"
    /\ \E recOk \in BOOLEAN :
          LET cr == calls[c] IN
          IF recOk
          THEN /\ recObjs' = Append(recObjs, KaldiRecognizer(vosk_model, DefaultRate, cr.id))
               /\ vosk_rec' = Len(recObjs) + 1
               /\ calls' = [calls EXCEPT ![c] =
                     Finish([cr EXCEPT !.loaded = TRUE, !.rec = Len(recObjs) + 1],
                            Returned(""))]
          ELSE /\ calls' = [calls EXCEPT ![c] = Finish(cr, Returned(""))]
               /\ UNCHANGED <<vosk_rec, recObjs>>
    /\ UNCHANGED <<boot, split>>
    /\ UNCHANGED <<vosk_model, modelObjs, installed, modelDirs, zips, files, micOpen,
                   invoked>>

\* ------------------------------------------------------ the specification
Next ==
    \/ \E c \in Slots, name \in ToolNames : \E args \in ArgsOf(name) :
          handle_call_tool(c, name, args)
    \/ \E c \in Slots : Return(c)
    \/ \E c \in Slots : ConvertRun(c)
    \/ \E c \in Slots : TranscribeConvert(c)
    \/ \E c \in Slots : TranscribeOpen(c)
    \/ \E c \in Slots : TranscribeFeed(c)
    \/ \E c \in Slots : TranscribeFinal(c)
    \/ \E c \in Slots : RecordOpen(c)
    \/ \E c \in Slots : RecordRead(c)
    \/ \E c \in Slots : RecordFinal(c)
    \/ \E c \in Slots : DownloadRetrieve(c)
    \/ \E c \in Slots : DownloadExtract(c)
    \/ \E c \in Slots : initialize_vosk_model(c)
    \/ \E c \in Slots : initialize_vosk_rec(c)

Spec == Init /\ [][Next]_vars

\* A handler that has a step to take takes it: the steps of one invocation,
\* from its first blocking call to its return or raise.
CallStep(c) ==
    \/ ConvertRun(c)
    \/ TranscribeConvert(c) \/ TranscribeOpen(c) \/ TranscribeFeed(c) \/ TranscribeFinal(c)
    \/ RecordOpen(c) \/ RecordRead(c) \/ RecordFinal(c)
    \/ DownloadRetrieve(c) \/ DownloadExtract(c)
    \/ initialize_vosk_model(c) \/ initialize_vosk_rec(c)

SpecLive == Init /\ [][Next]_vars /\ \A c \in Slots : WF_vars(CallStep(c))

\* ================================================================ claims
Started(c) == calls[c].pc # "idle"
Done(c) == calls[c].pc = "done"
Finishes(c) == calls[c].pc # "done" /\ calls'[c].pc = "done"
IsTranscribe(c) == calls[c].name = "transcribe_audio_offline"
IsRecord(c) == calls[c].name = "record_and_transcribe_offline"
IsDownload(c) == calls[c].name = "download_vosk_model"

\* C1: no failure escapes the gateway: every finished handle_call_tool call
\* returned a result to its caller, it did not raise.
C1_GatewayNeverRaises ==
    \A c \in Slots : Done(c) => calls[c].result.outcome = "returned"

\* the recognizer the next decode step of an in-flight session works on:
\* self.vosk_rec for a file transcription, the local rec for a recording
InDecode(c) == calls[c].pc \in {"tr_feed", "rec_read"}
UsedRec(c) == IF IsTranscribe(c) THEN vosk_rec ELSE calls[c].rec

\* C2: a step of a model replacement (_initialize_vosk run by a download
\* call) never changes the recognizer an in-flight decode loop is using, nor
\* the model that recognizer is bound to: the session finishes on the
\* recognizer and model it started with.
C2_ReplacementKeepsSessions ==
    [][\A d \in Slots :
          (calls[d].pc \in {"dl_init_model", "dl_init_rec"} /\ calls'[d] # calls[d])
          => \A c \in Slots :
                InDecode(c) => /\ UsedRec(c)' = UsedRec(c)
                               /\ recObjs'[UsedRec(c)'].model = calls[c].model]_vars

\* a download call ended without having installed a model and a recognizer
ReplacementFailed(c) == IsDownload(c) /\ Done(c) /\ ~calls[c].loaded

\* C3: a model replacement that fails reports a load error and has assigned
\* neither self.vosk_model nor self.vosk_rec.
C3_FailedReplacementUntouched ==
    \A c \in Slots :
        ReplacementFailed(c) =>
            /\ calls[c].result.error # ""
            /\ calls[c].model = NoObj
            /\ calls[c].rec = NoObj

\* C4: when download_vosk_model(model_name) returns its success payload, the
\* current model is loaded, has its recognizer, and is the model model_name
\* names.
C4_SuccessInstallsNamedModel ==
    [][\A c \in Slots :
          (IsDownload(c) /\ Finishes(c) /\ calls'[c].result.error = "")
          => /\ vosk_model' # NoObj
             /\ vosk_rec' # NoObj
             /\ modelObjs'[vosk_model'] = model_urls[ModelNameArg(calls[c].args)]
             /\ recObjs'[vosk_rec'].model = vosk_model']_vars

\* C5: a transcribe or record call that finds no model loaded (vosk_model
\* or vosk_rec is None when it enters) is finished at once with the
\* model-not-loaded error; it created no recognizer, fed no chunk, started no
\* conversion and opened no microphone.
C5_NoModelNoDecode ==
    \A c \in Slots :
        (Started(c) /\ (IsTranscribe(c) \/ IsRecord(c))
            /\ (calls[c].entryModel = NoObj \/ calls[c].entryRec = NoObj))
        => /\ Done(c)
           /\ calls[c].result = Returned("Vosk model not loaded")
           /\ calls[c].nRecs = 0 /\ calls[c].nFed = 0
           /\ calls[c].nConv = 0 /\ calls[c].nMic = 0

\* C5 witness: both decoding tools were refused for lack of a model, one of
\* them on a file that would have needed a conversion.
C5_Witness ==
    /\ vosk_model = NoObj
    /\ \E c, d \in Slots :
          /\ Done(c) /\ IsTranscribe(c) /\ calls[c].args.file_path = "song.mp3"
          /\ calls[c].result.error = "Vosk model not loaded"
          /\ Done(d) /\ IsRecord(d) /\ calls[d].args.durQ > 0
          /\ calls[d].result.error = "Vosk model not loaded"

\* C6: a call with a name that is not registered returns an error envelope
\* (isError = true) of kind UnknownTool, and runs no handler.
C6_UnknownToolEnvelope ==
    \A c \in Slots :
        (Done(c) /\ calls[c].name \notin RegisteredTools)
        => /\ calls[c].result.outcome = "returned"
           /\ calls[c].result.isError
           /\ calls[c].result.error = "UnknownTool"
           /\ calls[c].handler = None

\* inputSchema "required" of handle_list_tools
RequiredMissing(name, args) ==
    \/ name = "transcribe_audio_offline" /\ args.file_path = None
    \/ name = "convert_audio_format" /\ args.input_path = None

\* C7: a call to a registered tool whose arguments lack a required field
\* returns an error envelope of kind InvalidArguments, and the tool's handler
\* is never invoked.
C7_InvalidArgumentsEnvelope ==
    \A c \in Slots :
        (Started(c) /\ RequiredMissing(calls[c].name, calls[c].args))
        => /\ Done(c)
           /\ calls[c].result.outcome = "returned"
           /\ calls[c].result.isError
           /\ calls[c].result.error = "InvalidArguments"
           /\ calls[c].handler = None

\* a finished transcribe call that was given a path to a file that did not exist
TranscribedMissingFile(c) ==
    /\ Done(c) /\ IsTranscribe(c)
    /\ calls[c].args.file_path # None /\ ~calls[c].entryExists

\* C8: the transcribe tool called with a path that does not exist returns an
\* envelope with isError = true and kind SourceNotFound.
C8_SourceNotFoundEnvelope ==
    \A c \in Slots :
        TranscribedMissingFile(c)
        => /\ calls[c].result.outcome = "returned"
           /\ calls[c].result.isError
           /\ calls[c].result.error = "SourceNotFound"

\* C9 as stated: the transcribe handler raises FileNotFoundError for every
\* path to a file that does not exist, in every server state.
C9_AlwaysFileNotFound ==
    \A c \in Slots :
        TranscribedMissingFile(c) => calls[c].result.cause = "FileNotFoundError"

\* C9 amended: the transcribe handler, given a path to a file that does not
\* exist, raises FileNotFoundError whenever the model and the recognizer are
\* loaded when it is called; when either is missing it returns the
\* model-not-loaded payload and raises nothing.
C9_FileNotFoundWhenLoaded ==
    \A c \in Slots :
        TranscribedMissingFile(c)
        => IF calls[c].entryModel # NoObj /\ calls[c].entryRec # NoObj
           THEN calls[c].result.cause = "FileNotFoundError"
           ELSE calls[c].result = Returned("Vosk model not loaded")

\* C9 witness: with a model loaded, a transcribe call on a missing file has raised
\* FileNotFoundError.
C9_Witness ==
    \E c \in Slots :
        /\ TranscribedMissingFile(c)
        /\ calls[c].entryModel # NoObj /\ calls[c].entryRec # NoObj
        /\ calls[c].result.cause = "FileNotFoundError"

\* C10: every finished call carries an envelope whose isError flag is true
\* exactly when the call failed, also when the handler caught the failure
\* itself and returned an error payload.
C10_IsErrorTellsFailure ==
    \A c \in Slots :
        Done(c) => /\ calls[c].result.outcome = "returned"
                   /\ calls[c].result.isError = (calls[c].result.error # "")

\* ------------------------------------------ detect_platform_capabilities
serverVars == <<vosk_model, vosk_rec, modelObjs, recObjs, installed, modelDirs, zips,
                files, micOpen, calls, invoked>>

\* main() has called detect_platform_capabilities(), which has read the
\* platform and built the capabilities dict (lines 22-34); no server exists yet
InitBoot ==
    /\ \E system \in Systems, machine \in Machines, vi \in ImportOutcomes,
          si \in ImportOutcomes, md \in ModelsDirStates :
          /\ boot = [pc |-> "probe_vosk", system |-> system, machine |-> machine,
                     voskImport |-> vi, srImport |-> si, modelsDir |-> md,
                     caps |-> InitialCapabilities(system, machine),
                     constructed |-> <<>>, ctorFailed |-> FALSE, running |-> None,
                     exit |-> None]
          /\ installed = IF vi = "ok" THEN {"vosk"} ELSE {}
          /\ modelDirs = [d \in ModelDirNames |->
                IF d = "vosk-model-small-en-us-0.15" /\ md = "model" THEN "good"
                ELSE "absent"]
    /\ vosk_model = NoObj /\ vosk_rec = NoObj
    /\ modelObjs = <<>> /\ recObjs = <<>>
    /\ zips = [x \in DOMAIN model_urls |-> "absent"]
    /\ files = InitialFiles
    /\ micOpen = 0
    /\ calls = [c \in Slots |-> Idle]
    /\ invoked = 0
    /\ split = NoSplit

\* lines 36-57: try: import vosk ... except ImportError.  Only ImportError is
\* caught; os.listdir of a models directory that cannot be read raises too.
probe_vosk ==
    /\ boot.pc = "probe_vosk"
    /\ boot' =
          IF boot.voskImport = "ImportError" THEN [boot EXCEPT !.pc = "probe_sr"]
          ELSE IF boot.voskImport # "ok" \/ boot.modelsDir = "unreadable"
               THEN [boot EXCEPT !.pc = "raised",
                                 !.caps.vosk_supported = (boot.voskImport = "ok"),
                                 !.caps.offline_capable = (boot.voskImport = "ok")]
          ELSE [boot EXCEPT !.pc = "probe_sr", !.caps.vosk_supported = TRUE,
                            !.caps.offline_capable = TRUE]
    /\ UNCHANGED serverVars
    /\ UNCHANGED split

\* lines 59-65: try: import speech_recognition ... except ImportError
probe_speechrecognition ==
    /\ boot.pc = "probe_sr"
    /\ boot' =
          IF boot.srImport = "ImportError" THEN [boot EXCEPT !.pc = "select"]
          ELSE IF boot.srImport # "ok" THEN [boot EXCEPT !.pc = "raised"]
          ELSE [boot EXCEPT !.pc = "select", !.caps.speechrecognition_supported = TRUE]
    /\ UNCHANGED serverVars
    /\ UNCHANGED split

\* lines 67-86: choose the backend, return the capabilities
select_backend ==
    /\ boot.pc = "select"
    /\ LET c == boot.caps IN
       boot' = [boot EXCEPT
          !.pc = "returned",
          !.caps.recommended_backend =
              recommended_backend(boot.system, boot.machine, c.vosk_supported,
                                  c.speechrecognition_supported),
          !.caps.production_ready =
              production_ready(boot.system, boot.machine, c.vosk_supported,
                               c.speechrecognition_supported)]
    /\ UNCHANGED serverVars
    /\ UNCHANGED split

\* main() lines 93-103: log the snapshot; without a backend, sys.exit(1)
main_check_backend ==
    /\ boot.pc = "returned"
    /\ boot' = IF boot.caps.recommended_backend = None
               THEN [boot EXCEPT !.pc = "exited", !.exit = 1]
               ELSE [boot EXCEPT !.pc = "construct"]
    /\ UNCHANGED serverVars
    /\ UNCHANGED split

\* main() lines 106-120 and 135-144: import the server module and construct
\* the server; ImportError and any other Exception end in sys.exit(1).  The
\* constructor of OfflineSpeechToTextServer runs _initialize_vosk.
main_construct_server ==
    /\ boot.pc = "construct"
    /\ \E outcome \in ConstructOutcomes :
          LET class == server_class(boot.caps.recommended_backend) IN
          IF outcome # "ok"
          THEN /\ boot' = [boot EXCEPT !.pc = "exited", !.exit = 1, !.ctorFailed = TRUE]
               /\ UNCHANGED <<vosk_model, vosk_rec, modelObjs, recObjs>>
          ELSE /\ boot' = [boot EXCEPT !.pc = "run", !.constructed = Append(@, class)]
               /\ IF class # "OfflineSpeechToTextServer"
                  THEN UNCHANGED <<vosk_model, vosk_rec, modelObjs, recObjs>>
                  ELSE \E d \in InitPicks(installed, modelDirs), recOk \in BOOLEAN :
                          IF d = None \/ modelDirs[d] = "bad"
                          THEN UNCHANGED <<vosk_model, vosk_rec, modelObjs, recObjs>>
                          ELSE /\ modelObjs' = <<d>>
                               /\ vosk_model' = 1
                               /\ IF recOk
                                  THEN /\ recObjs' = <<KaldiRecognizer(1, DefaultRate, 0)>>
                                       /\ vosk_rec' = 1
                                  ELSE UNCHANGED <<recObjs, vosk_rec>>
    /\ UNCHANGED <<installed, modelDirs, zips, files, micOpen, calls, invoked, split>>

\* main() line 133: await server.run_server()
main_run_server ==
    /\ boot.pc = "run"
    /\ boot' = [boot EXCEPT !.pc = "running",
                            !.running = boot.constructed[Len(boot.constructed)]]
    /\ UNCHANGED serverVars
    /\ UNCHANGED split

NextBoot ==
    \/ probe_vosk \/ probe_speechrecognition \/ select_backend
    \/ main_check_backend \/ main_construct_server \/ main_run_server

SpecBoot == InitBoot /\ [][NextBoot]_vars

\* C12: whenever the probe returns a snapshot in which vosk is available, the
\* recommended backend is the offline one, on every platform and whether or
\* not the online recognizer is available.
C12_OfflinePreferred ==
    (boot.pc = "returned" /\ boot.caps.vosk_supported)
    => boot.caps.recommended_backend = "vosk"

\* C12 witness: off Linux/x86_64, with both backends available, the offline
\* one was chosen.
C12_Witness ==
    /\ boot.pc = "returned" /\ boot.system = "darwin"
    /\ boot.caps.vosk_supported /\ boot.caps.speechrecognition_supported
    /\ boot.caps.recommended_backend = "vosk"

\* C13: every returned snapshot carries exactly one of the three choices, and
\* the choice is fixed by the two availability flags, first match first:
\* without vosk and with the online recognizer it is the online backend,
\* without both it is none, on every platform.
C13_SelectionTotalFirstMatch ==
    boot.pc = "returned" =>
        LET c == boot.caps IN
        /\ c.recommended_backend \in {"vosk", "speechrecognition", None}
        /\ c.vosk_supported => c.recommended_backend = "vosk"
        /\ (~c.vosk_supported /\ c.speechrecognition_supported)
              => c.recommended_backend = "speechrecognition"
        /\ (~c.vosk_supported /\ ~c.speechrecognition_supported)
              => c.recommended_backend = None

\* C13 witness: without vosk, off Linux, the probe chose the online backend.
C13_Witness ==
    /\ boot.pc = "returned"
    /\ ~boot.caps.vosk_supported
    /\ boot.system = "windows"
    /\ boot.caps.speechrecognition_supported
    /\ boot.caps.recommended_backend = "speechrecognition"

\* ------------------------------------------------------------------------
IsFormats(c) == calls[c].name = "get_supported_formats"
IsConvert(c) == calls[c].name = "convert_audio_format"
InSeq(x, seq) == \E i \in 1..Len(seq) : seq[i] = x

\* the call takes a step of its handler
Acts(c) == calls[c].pc \notin {"idle", "done"} /\ calls'[c] # calls[c]

\* the path of the resource the call was given as its input
InputOf(c) ==
    IF IsTranscribe(c) THEN calls[c].args.file_path
    ELSE IF IsConvert(c) THEN calls[c].args.input_path
    ELSE None

\* the call has read its input to the end and has not finalized yet
AtEndOfInput(c) ==
    \/ calls[c].pc = "tr_feed" /\ calls[c].pos = Len(calls[c].audio)
    \/ /\ calls[c].pc = "rec_read"
       /\ calls[c].pos = FramesToRecord(DefaultRate, calls[c].args.durQ)

\* the recognizer the call's next decoder operation goes to: the shared field
\* for a file, the handler's local for a recording
SessionRec(c) == IF calls[c].pc = "tr_feed" THEN vosk_rec ELSE calls[c].rec

\* the call has fed no frame, and the recognizer it is about to finalize has
\* received none
ZeroFrames(c) == calls[c].nFed = 0 /\ recObjs[SessionRec(c)].fed = <<>>

\* the non-empty texts the decoder gave the call, in the order it gave them
Segments(c) == SelectSeq(calls[c].heard, LAMBDA t : t # "")

\* text is segs[1], " ", segs[2], " ", ..., segs[n] and nothing else
JoinedBySingleSpaces(text, segs) ==
    /\ Len(text) = IF segs = <<>> THEN 0 ELSE 2 * Len(segs) - 1
    /\ \A i \in 1..Len(text) :
          text[i] = IF i % 2 = 1 THEN segs[(i + 1) \div 2] ELSE " "

\* C11: every finished get_supported_formats call returned a result that is
\* not an error, has content, and lists a non-empty set of formats with
\* ".wav" among them, whether or not a model is loaded.
C11_FormatsAlwaysAnswered ==
    \A c \in Slots :
        (Done(c) /\ IsFormats(c)) =>
            /\ calls[c].result.outcome = "returned"
            /\ ~calls[c].result.isError
            /\ calls[c].result.error = ""
            /\ calls[c].result.content > 0
            /\ calls[c].formats # <<>>
            /\ InSeq(".wav", calls[c].formats)

\* C11 witness: the tool has answered on a server that has no model loaded.
C11_Witness ==
    \E c \in Slots :
        /\ Done(c) /\ IsFormats(c) /\ ModelNotLoaded
        /\ InSeq(".wav", calls[c].formats)

\* C14: a recording call that reaches the input device while another recording
\* call holds it open ends there, with isError and the error DeviceBusy.
C14_BusyDeviceFailsFast ==
    [][\A c \in Slots :
          ( /\ calls[c].pc = "rec_open"
            /\ calls'[c] # calls[c]
            /\ \E d \in Slots \ {c} : calls[d].pc \in {"rec_read", "rec_blocked"} )
          => /\ calls'[c].pc = "done"
             /\ calls'[c].result.isError
             /\ calls'[c].result.error = "DeviceBusy"]_vars

\* C15: a recording call whose device delivers no data eventually returns a
\* RecordingTimeout error.
C15_RecordingNeverHangs ==
    \A c \in Slots :
        (calls[c].pc = "rec_blocked")
        ~> (Done(c) /\ calls[c].result.error = "RecordingTimeout")

\* C16: a finished transcribe call whose input could not be decoded failed
\* with an unsupported-format error and fed no chunk to the decoder.
C16_UndecodableRejected ==
    \A c \in Slots :
        (Done(c) /\ IsTranscribe(c) /\ calls[c].undecodable) =>
            /\ \/ calls[c].result.cause = "ValueError"
               \/ calls[c].result.error = "UnsupportedFormat"
            /\ calls[c].nFed = 0

\* C17: no step of a transcribe or convert call changes the file at the
\* call's input path, and a step of a transcribe call deletes no file but
\* the converted file that call created.
C17_InputUntouched ==
    [][\A c \in Slots :
          (Acts(c) /\ InputOf(c) # None) =>
              /\ files'[InputOf(c)] = files[InputOf(c)]
              /\ IsTranscribe(c) =>
                    \A p \in Paths :
                        (Exists(p) /\ files'[p] = Absent)
                        => (p = calls[c].wav_path /\ calls[c].madeWav)]_vars

\* C18: when a transcribe call that created the converted WAV file returns
\* or raises, that file is gone.
C18_ConvertedFileCleaned ==
    [][\A c \in Slots :
          (IsTranscribe(c) /\ Finishes(c) /\ calls[c].madeWav)
          => files'[calls[c].wav_path] = Absent]_vars

C20_TranscriptIsSegmentsInOrder ==
    \A c \in Slots :
        (Done(c) /\ calls[c].nFinal = 1) =>
            /\ calls[c].results = Segments(c)
            /\ JoinedBySingleSpaces(calls[c].transcription, Segments(c))

\* C20 witness: a call was given two different texts with an empty one
\* between them and returned the two joined by one space.
C20_Witness ==
    \E c \in Slots :
        /\ Done(c) /\ calls[c].nFinal = 1
        /\ Len(calls[c].heard) = 3 /\ calls[c].heard[2] = ""
        /\ Len(Segments(c)) = 2 /\ Segments(c)[1] # Segments(c)[2]
        /\ calls[c].transcription = <<Segments(c)[1], " ", Segments(c)[2]>>

\* ------------------------------------------------------------------------
\* C21: the state of a recognizer is changed only by steps of the call that
\* created it: no other call feeds it or finalizes it.
C21_SessionOwnedByCreator ==
    [][\A r \in 1..Len(recObjs) :
          recObjs'[r] # recObjs[r]
          => \E c \in Slots : Acts(c) /\ calls[c].id = recObjs[r].by]_vars

\* C22: every recognizer was created for the decoder's rate, 16000: no decode
\* session is opened on, or fed, audio of another rate.
C22_CanonicalRate ==
    \A r \in 1..Len(recObjs) : recObjs[r].rate = DefaultRate

\* C23: a recognizer whose FinalResult has been taken accepts no further
\* chunk.
C23_NoFeedAfterFinal ==
    [][\A r \in 1..Len(recObjs) :
          recObjs[r].finalized => recObjs'[r].fed = recObjs[r].fed]_vars

C26_ProbeNeverRaises == boot.pc # "raised"

\* C29: after the probe has returned, main constructs and runs a server only
\* for a recommended backend and only the class of that backend: without a
\* backend it exits with status 1 and no server; for vosk every server
\* constructed is an OfflineSpeechToTextServer, for speechrecognition a
\* SpeechToTextServer; the server that runs is the one constructed; after a
\* failed construction nothing runs and main has exited with status 1.
C29_ServerMatchesSelection ==
    boot.pc \in {"construct", "run", "running", "exited"} =>
        LET b == boot.caps.recommended_backend IN
        /\ b = None => /\ boot.pc = "exited" /\ boot.exit = 1
                       /\ boot.constructed = <<>> /\ boot.running = None
        /\ b = "vosk" => \A i \in 1..Len(boot.constructed) :
                            boot.constructed[i] = "OfflineSpeechToTextServer"
        /\ b = "speechrecognition" => \A i \in 1..Len(boot.constructed) :
                            boot.constructed[i] = "SpeechToTextServer"
        /\ boot.running # None => boot.constructed = <<boot.running>>
        /\ boot.ctorFailed => /\ boot.running = None /\ boot.constructed = <<>>
                              /\ boot.pc = "exited" /\ boot.exit = 1

\* C29 witness: on a host without vosk the online server, and no other, was
\* constructed and is running.
C29_Witness ==
    /\ boot.pc = "running" /\ boot.caps.recommended_backend = "speechrecognition"
    /\ boot.constructed = <<"SpeechToTextServer">>
    /\ boot.running = "SpeechToTextServer"

\* ------------------------------------------------------------------------
\* The decode loop of lines 274-291 run twice on one stream of frames, on a
\* fresh recognizer each time: first with the whole stream in one buffer,
\* then with buffers of split.size frames.
InitSplit ==
    /\ \E n \in 0..MaxFrames : \E frames \in [1..n -> Chunks] : \E size \in 1..MaxFrames :
          split = [NoSplit EXCEPT !.pc = "whole", !.frames = frames, !.size = size]
    /\ installed = Libraries
    /\ modelDirs = [d \in ModelDirNames |->
                       IF d = "vosk-model-small-en-us-0.15" THEN "good" ELSE "absent"]
    /\ modelObjs = <<"vosk-model-small-en-us-0.15">> /\ vosk_model = 1
    /\ recObjs = <<>> /\ vosk_rec = NoObj
    /\ zips = [x \in DOMAIN model_urls |-> "absent"]
    /\ files = InitialFiles
    /\ micOpen = 0
    /\ calls = [c \in Slots |-> Idle]
    /\ invoked = 0
    /\ boot = NoBoot

\* the frames one read takes in the current pass
BufferSize == IF split.pc = "whole" THEN Len(split.frames) ELSE split.size

\* lines 276-283 for one buffer
SplitFeed ==
    /\ split.pc \in {"whole", "parts"}
    /\ split.pos < Len(split.frames)
    /\ LET last == IF split.pos + BufferSize > Len(split.frames)
                   THEN Len(split.frames) ELSE split.pos + BufferSize
           data == SubSeq(split.frames, split.pos + 1, last)
       IN split' = [split EXCEPT
             !.pos = last,
             !.rec = AfterAcceptAll(@, data),
             !.results = IF AcceptWaveformAll(data)
                         THEN AppendIfText(@, ResultTextAll(split.rec, data)) ELSE @]
    /\ UNCHANGED <<serverVars, boot>>

\* lines 277-291 at the end of the data: FinalResult, join, strip
SplitFinal ==
    /\ split.pc \in {"whole", "parts"}
    /\ split.pos = Len(split.frames)
    /\ LET results == AppendIfText(split.results, FinalResultText(split.rec))
           text == full_transcription(results)
       IN split' = IF split.pc = "whole"
                   THEN [split EXCEPT !.pc = "parts", !.whole = text, !.pos = 0,
                                      !.results = <<>>, !.rec = NoSplit.rec]
                   ELSE [split EXCEPT !.pc = "done", !.parts = text, !.results = results]
    /\ UNCHANGED <<serverVars, boot>>

NextSplit == SplitFeed \/ SplitFinal

SpecSplit == InitSplit /\ [][NextSplit]_vars

C27_ModelStaysLoaded ==
    /\ vosk_rec # NoObj => vosk_model # NoObj
    /\ [][/\ vosk_rec' # NoObj => vosk_model' # NoObj
          /\ vosk_model # NoObj => vosk_model' # NoObj]_vars

\* C27 witness: a download has failed to load anything and the model and
\* the recognizer loaded before it are still in place.
C27_Witness ==
    \E c \in Slots :
        /\ ReplacementFailed(c)
        /\ vosk_model # NoObj /\ vosk_rec # NoObj
        /\ vosk_model = calls[c].entryModel

\* C28: every input stream a recording call opened is closed when the call
\* has returned: the streams open are those of the calls still recording.
C28_MicReleased ==
    micOpen = Cardinality({c \in Slots : calls[c].pc \in {"rec_read", "rec_blocked"}})

\* C30: a download call for a name outside the catalogue ends in its first
\* step with the not-available payload that lists the catalogue's names, and
\* that step changes no archive, no model directory, no file and neither
\* self.vosk_model nor self.vosk_rec.
C30_UnknownModelChangesNothing ==
    [][\A c \in Slots :
          ( /\ calls[c].pc = "idle"
            /\ calls'[c].name = "download_vosk_model"
            /\ ModelNameArg(calls'[c].args) \notin DOMAIN model_urls )
          => /\ calls'[c].pc = "done"
             /\ calls'[c].result.outcome = "returned"
             /\ calls'[c].result.error = "Model not available"
             /\ calls'[c].available_models = DOMAIN model_urls
             /\ UNCHANGED <<vosk_model, vosk_rec, modelObjs, recObjs, modelDirs,
                            zips, files>>]_vars

\* C30 witness: on a server with a model loaded, a download of "bogus" has
\* returned the not-available payload and the model is the one loaded before.
C30_Witness ==
    \E c \in Slots :
        /\ Done(c) /\ IsDownload(c) /\ calls[c].args.model_name = "bogus"
        /\ calls[c].result.error = "Model not available"
        /\ vosk_model # NoObj /\ vosk_model = calls[c].entryModel
        /\ vosk_rec = calls[c].entryRec

====
